---- MODULE Spec2Model ----
(***************************************************************************)
(* Session lifecycle of rr7-honobun: the credential store (users and       *)
(* refresh_tokens tables), the token codec (JwtService), the session       *)
(* service (AuthService) and the auth endpoints of authApi.ts that call    *)
(* it.  Time is counted in minutes.  A handler whose store accesses are    *)
(* separated by awaits is split at the awaits where another request can    *)
(* observe or change the rows it works on (refreshToken); a handler with   *)
(* a single store write is one step.                                       *)
(***************************************************************************)
EXTENDS Integers, Sequences, FiniteSets, TLC

\* ---------------------------------------------------------------- bounds
MaxRecords == 3
MaxTicks == 1
MaxClientTime == 2
MaxFlights == 2
MaxSessionTime == 30

\* ------------------------------------------------------ program constants
\* "15m" and "30d" of jwt.service.ts, in minutes
ACCESS_TOKEN_EXPIRY == 15
REFRESH_TOKEN_EXPIRY == 43200

\* durations the client code compares with, in units of 30 seconds
FIVE_MINUTES == 10
FIFTEEN_MINUTES == 30
TWENTY_MINUTES == 40
ONE_HOUR == 120
\* shouldRefreshToken's window and rate limit, the login page's lead time
THREE_MINUTES == 6
ONE_MINUTE == 2

\* the two concurrent HTTP requests the server is working on
Callers == {1, 2}

\* ids of the rows of the users table; no code path deletes a row
UserIds == {1, 2}

\* e-mail addresses a request can carry: the address of user u is u, and
\* UnknownEmail belongs to no account
UnknownEmail == 0
Emails == UserIds \cup {UnknownEmail}

\* passwords a request can carry: the password user u registered with is u,
\* and WrongPassword is nobody's password
WrongPassword == 0
Passwords == UserIds \cup {WrongPassword}

None == [none |-> TRUE]

VARIABLES
    now,            \* wall clock (Date.now()), minutes
    nticks,         \* number of clock advances so far
    users,          \* users table: id -> row
    refreshTokens,  \* refresh_tokens table: sequence of rows, id = index
    accessTokens,   \* access tokens issued so far; accessTokens[i] was issued with row i
    proc,           \* per caller: position and locals of its refresh request in flight
    sent,           \* the response sent by the step just taken, None for an internal step
    ghost,          \* history: parent rows, rotated tokens, logout-all coverage,
                    \* tokens minted while their account was unverified
    cnow,           \* the browser's clock (Date.now()), in units of 30 seconds
    storage,        \* the tab's sessionStorage: reduxState and lastSuccessfulAuth
    marker,         \* whether document.cookie shows the auth_status cookie
    auth,           \* the auth slice of the Redux store, None before the store exists
    event,          \* the client step just taken and what it was given
    provider,       \* AuthProvider: its refs and its React state
    requests,       \* the refresh requests and the logout request in flight
    timers,         \* when the refresh effect last ran or its interval last
                    \* fired, and when the login page's refresh timer is due
    cghost          \* history: the last scheduled refresh attempt, logout invoked

serverVars == <<now, nticks, users, refreshTokens, accessTokens, proc, sent, ghost>>

clientVars == <<cnow, storage, marker, auth, event, provider, requests, timers, cghost>>

vars == <<now, nticks, users, refreshTokens, accessTokens, proc, sent, ghost,
          cnow, storage, marker, auth, event, provider, requests, timers, cghost>>

\* ------------------------------------------------------------ Token codec

\* Bun.password.hash / Bun.password.verify
passwordHash(password) == <<"bcrypt", password>>

passwordVerify(password, hash) == passwordHash(password) = hash

\* JwtService.generateAccessToken: the payload { sub, email, role, jti },
\* exp = iat + 15m, fresh jti
generateAccessToken(userId, jti) ==
    [kind |-> "access", sub |-> userId, email |-> users[userId].email,
     role |-> users[userId].role, jti |-> jti,
     exp |-> now + ACCESS_TOKEN_EXPIRY, sig |-> TRUE]

\* JwtService.generateRefreshToken: the same payload, exp = iat + 30d
generateRefreshToken(userId, jti) ==
    [kind |-> "refresh", sub |-> userId, email |-> users[userId].email,
     role |-> users[userId].role, jti |-> jti,
     exp |-> now + REFRESH_TOKEN_EXPIRY, sig |-> TRUE]

\* a faulty variant: jwt.decode in the place of jwt.verify, neither the
\* signature nor exp is looked at
decodeAccessToken(token) ==
    IF token.kind = "access" THEN token ELSE None

\* jwt.verify inside try/catch: payload, or null for a bad signature or a
\* passed exp
verifyAccessToken(token) ==
    IF token.kind = "access" /\ token.sig /\ now < token.exp THEN token ELSE None

verifyRefreshToken(token) ==
    IF token.kind = "refresh" /\ token.sig /\ now < token.exp THEN token ELSE None


\* ------------------------------------------------------- Credential store

\* db.query.users.findFirst({ where: eq(users.email, email) }): id, or 0
findUserByEmail(email) ==
    IF \E u \in UserIds : users[u].email = email
    THEN CHOOSE u \in UserIds : users[u].email = email
    ELSE 0

\* db.query.users.findFirst({ where: eq(users.id, userId) }): id, or 0
findUserById(userId) == IF userId \in UserIds THEN userId ELSE 0

RowIds == 1..Len(refreshTokens)

\* a faulty variant: the isRevoked filter of the query is dropped
findAnyRefreshToken(token) ==
    IF \E i \in RowIds : refreshTokens[i].token = token /\ refreshTokens[i].expiresAt > now
    THEN CHOOSE i \in RowIds : refreshTokens[i].token = token /\ refreshTokens[i].expiresAt > now
    ELSE 0

\* db.query.refreshTokens.findFirst({ where: and(eq(token), eq(isRevoked,
\* false), gt(expiresAt, new Date())) }): row id, or 0
findActiveRefreshToken(token) ==
    IF \E i \in RowIds : /\ refreshTokens[i].token = token
                         /\ refreshTokens[i].isRevoked = FALSE
                         /\ refreshTokens[i].expiresAt > now
    THEN CHOOSE i \in RowIds : /\ refreshTokens[i].token = token
                               /\ refreshTokens[i].isRevoked = FALSE
                               /\ refreshTokens[i].expiresAt > now
    ELSE 0

\* a faulty variant: the update of the rotation is lost
keepById(rows, id) == rows

\* db.update(refreshTokens).set({ isRevoked: true }).where(eq(id, stored.id))
revokeById(rows, id) ==
    [i \in 1..Len(rows) |->
        IF rows[i].id = id THEN [rows[i] EXCEPT !.isRevoked = TRUE] ELSE rows[i]]

\* a faulty variant: the update flips the flag instead of setting it
toggleByToken(rows, token) ==
    [i \in 1..Len(rows) |->
        IF rows[i].token = token
        THEN [rows[i] EXCEPT !.isRevoked = ~rows[i].isRevoked] ELSE rows[i]]

\* AuthService.revokeRefreshToken:
\* db.update(refreshTokens).set({ isRevoked: true }).where(eq(token, token))
revokeRefreshToken(rows, token) ==
    [i \in 1..Len(rows) |->
        IF rows[i].token = token THEN [rows[i] EXCEPT !.isRevoked = TRUE] ELSE rows[i]]

\* a faulty variant: the where clause is missing, every user's rows are revoked
revokeEveryRefreshToken(rows, userId) ==
    [i \in 1..Len(rows) |-> [rows[i] EXCEPT !.isRevoked = TRUE]]

\* AuthService.revokeAllUserRefreshTokens:
\* db.update(refreshTokens).set({ isRevoked: true }).where(eq(userId, userId))
revokeAllUserRefreshTokens(rows, userId) ==
    [i \in 1..Len(rows) |->
        IF rows[i].userId = userId THEN [rows[i] EXCEPT !.isRevoked = TRUE] ELSE rows[i]]

\* a faulty variant: the rotation overwrites the newest row instead of
\* adding one
replaceRefreshToken(rows, userId, token) ==
    IF Len(rows) = 0
    THEN << [id |-> 1, userId |-> userId, token |-> token,
             expiresAt |-> token.exp, isRevoked |-> FALSE] >>
    ELSE [rows EXCEPT ![Len(rows)] =
             [id |-> Len(rows), userId |-> userId, token |-> token,
              expiresAt |-> token.exp, isRevoked |-> FALSE]]

\* db.insert(refreshTokens).values({ userId, token, expiresAt }): the serial
\* id is the next index, isRevoked defaults to false
insertRefreshToken(rows, userId, token) ==
    Append(rows, [id |-> Len(rows) + 1, userId |-> userId, token |-> token,
                  expiresAt |-> token.exp, isRevoked |-> FALSE])


\* -------------------------------------------------------- Session service

\* AuthService.login up to the token minting: a thrown Error carries its
\* message; success carries the user
login(email, password) ==
    LET user == findUserByEmail(email) IN
    IF user = 0 THEN [ok |-> FALSE, error |-> "Invalid credentials"]
    ELSE IF ~passwordVerify(password, users[user].passwordHash)
         THEN [ok |-> FALSE, error |-> "Invalid credentials"]
         ELSE [ok |-> TRUE, user |-> user]

\* a faulty variant: the verify failure gets a message of its own
refreshTokenLookupTalkative(token) ==
    IF verifyRefreshToken(token) = None
    THEN [ok |-> FALSE, error |-> "Refresh token expired or malformed"]
    ELSE IF findActiveRefreshToken(token) = 0
         THEN [ok |-> FALSE, error |-> "Invalid refresh token"]
         ELSE IF findUserById(token.sub) = 0
              THEN [ok |-> FALSE, error |-> "User not found"]
              ELSE [ok |-> TRUE, stored |-> findActiveRefreshToken(token),
                    user |-> findUserById(token.sub)]

\* AuthService.refreshToken up to the rotation: verify, look the active row
\* up, look the user up
refreshTokenLookup(token) ==
    IF verifyRefreshToken(token) = None
    THEN [ok |-> FALSE, error |-> "Invalid refresh token"]
    ELSE IF findActiveRefreshToken(token) = 0
         THEN [ok |-> FALSE, error |-> "Invalid refresh token"]
         ELSE IF findUserById(token.sub) = 0
              THEN [ok |-> FALSE, error |-> "User not found"]
              ELSE [ok |-> TRUE, stored |-> findActiveRefreshToken(token),
                    user |-> findUserById(token.sub)]

\* a faulty variant: validation also asks for a live refresh-token row
validateAccessTokenWithSession(token) ==
    IF verifyAccessToken(token) = None THEN 0
    ELSE IF \E i \in RowIds : refreshTokens[i].userId = token.sub
                              /\ ~refreshTokens[i].isRevoked
         THEN findUserById(token.sub)
         ELSE 0

\* AuthService.validateAccessToken: user id, or 0 for null
validateAccessToken(token) ==
    IF verifyAccessToken(token) = None THEN 0 ELSE findUserById(token.sub)

\* what AuthService.validateAccessToken returns: the row of the users table
\* as it is now, or null
validatedUser(token) ==
    IF validateAccessToken(token) = 0 THEN None ELSE users[validateAccessToken(token)]

\* authMiddleware: c.var.user from the access_token cookie, 0 when unset
authMiddleware(cookie) ==
    IF cookie = None THEN 0 ELSE validateAccessToken(cookie)

\* --------------------------------------------------------------- Responses

CookiesUntouched ==
    [access_token |-> "untouched", refresh_token |-> "untouched", auth_status |-> "untouched"]

\* setAuthCookies followed by setCookie(c, "auth_status", ...)
CookiesSet ==
    [access_token |-> "set", refresh_token |-> "set", auth_status |-> "set"]

\* clearAuthCookies alone
clearAuthCookies ==
    [access_token |-> "deleted", refresh_token |-> "deleted", auth_status |-> "untouched"]

\* clearAuthCookies followed by deleteCookie(c, "auth_status", ...)
CookiesDeleted ==
    [access_token |-> "deleted", refresh_token |-> "deleted", auth_status |-> "deleted"]

\* c.json({ success: false, message }, status)
failure(status, message, cookies) ==
    [status |-> status, body |-> [success |-> FALSE, message |-> message],
     cookies |-> cookies]

\* c.json({ success: true, user, expiresAt })
sessionPayload(user, expiresAt) ==
    [status |-> 200, body |-> [success |-> TRUE, user |-> user, expiresAt |-> expiresAt],
     cookies |-> CookiesSet]

\* the 403 of the login route for an unverified account
requiresVerification(email) ==
    [status |-> 403,
     body |-> [success |-> FALSE,
               message |-> "Email not verified. Please check your email for the verification link.",
               requiresVerification |-> TRUE, email |-> email],
     cookies |-> CookiesUntouched]

\* requireAuth: the answer of the guard, None when it calls next()
requireAuth(user) ==
    IF user = 0 THEN failure(401, "Authentication required", CookiesUntouched)
    ELSE None

\* requireAdmin
requireAdmin(user) ==
    IF user = 0 THEN failure(401, "Authentication required", CookiesUntouched)
    ELSE IF users[user].role # "admin" /\ users[user].role # "super_admin"
         THEN failure(403, "Admin access required", CookiesUntouched)
         ELSE None

\* requireVerifiedEmail: the answer to a request without a user is c.json
\* without a status argument, which Hono sends as 200
requireVerifiedEmail(user) ==
    IF user = 0 THEN failure(200, "Authentication required", CookiesUntouched)
    ELSE IF ~users[user].isVerified
         THEN [status |-> 403,
               body |-> [success |-> FALSE,
                         message |-> "Your Email was not verified, Please verify before continoue",
                         requiresVerification |-> TRUE, email |-> users[user].email],
               cookies |-> CookiesUntouched]
         ELSE None

Guards == {"requireAuth", "requireAdmin", "requireVerifiedEmail"}

guardAnswer(guard, user) ==
    CASE guard = "requireAuth" -> requireAuth(user)
      [] guard = "requireAdmin" -> requireAdmin(user)
      [] guard = "requireVerifiedEmail" -> requireVerifiedEmail(user)

\* POST /api/auth/login, what it answers when AuthService.login throws or the
\* account is unverified; None when the login goes through
postLoginFailure(email, password) ==
    LET user == findUserByEmail(email) IN
    IF user # 0 /\ ~users[user].isVerified THEN requiresVerification(email)
    ELSE IF ~login(email, password).ok
         THEN failure(401, login(email, password).error, CookiesUntouched)
         ELSE None

\* POST /api/auth/refresh, the catch branch: clearAuthCookies, 401 with the
\* error's message
postRefreshFailure(error) == failure(401, error, clearAuthCookies)


\* ------------------------------------------------------------------ State

Idle == [pc |-> "idle", tok |-> None, stored |-> 0, pre |-> None]

\* user 1, an admin, has verified the address; user 2 has registered with
\* the default role and has not verified yet
ServerInit ==
    /\ now = 0
    /\ nticks = 0
    /\ users = [u \in UserIds |->
                  [email |-> u, passwordHash |-> passwordHash(u),
                   role |-> IF u = 1 THEN "admin" ELSE "user", isVerified |-> (u = 1)]]
    /\ refreshTokens = << >>
    /\ accessTokens = << >>
    /\ proc = [p \in Callers |-> Idle]
    /\ sent = None
    /\ ghost = [parent |-> << >>, rotated |-> {}, covered |-> {}, unverified |-> {}]

\* initialState of the auth slice (lastRefreshAttempt, which nothing reads,
\* is left out); the source is "server", "client" or, for null, "null"
initialState ==
    [user |-> None, expiresAt |-> None, isLoading |-> FALSE, source |-> "null",
     logoutInProgress |-> FALSE, refreshInProgress |-> FALSE,
     lastSuccessfulRefresh |-> None]

EmptyStorage == [reduxState |-> None, lastSuccessfulAuth |-> None]

\* AuthProvider as it mounts: useRef(false) twice, useState(false) twice,
\* useState<Date | null>(null)
freshProvider ==
    [redirectInProgressRef |-> FALSE, refreshInProgressRef |-> FALSE,
     isLoggingOut |-> FALSE, isRedirecting |-> FALSE, lastSuccessfulRefresh |-> None]

NoRequests == [refresh |-> << >>, logout |-> "none"]

NoTimers == [checkedAt |-> 0, loginTimer |-> None, cookieCheck |-> FALSE]

\* the timers of a page that has mounted with no session: the cookie check's
\* 10 second interval is set, the refresh interval is not
MountedTimers == [NoTimers EXCEPT !.cookieCheck = TRUE]

NoHistory == [lastScheduled |-> None, logoutInvoked |-> FALSE]

\* a browser tab that has not opened the application
NoClient ==
    /\ cnow = 0
    /\ storage = EmptyStorage
    /\ marker = FALSE
    /\ auth = None
    /\ event = None
    /\ provider = freshProvider
    /\ requests = NoRequests
    /\ timers = NoTimers
    /\ cghost = NoHistory

Init == ServerInit /\ NoClient

\* a refresh token that was tampered with, and one that is signed but was
\* never stored
ForgedRefreshToken ==
    [kind |-> "refresh", sub |-> 1, email |-> 1, role |-> "admin", jti |-> 0,
     exp |-> REFRESH_TOKEN_EXPIRY, sig |-> FALSE]

OrphanRefreshToken ==
    [kind |-> "refresh", sub |-> 1, email |-> 1, role |-> "admin", jti |-> 0,
     exp |-> REFRESH_TOKEN_EXPIRY, sig |-> TRUE]

ForgedAccessToken ==
    [kind |-> "access", sub |-> 1, email |-> 1, role |-> "admin", jti |-> 0,
     exp |-> ACCESS_TOKEN_EXPIRY, sig |-> FALSE]

\* an access token the server signed at time 0 for an account whose row has
\* since been removed from the users table
DeletedUserId == 3

DeletedUserAccessToken ==
    [kind |-> "access", sub |-> DeletedUserId, email |-> DeletedUserId, role |-> "user",
     jti |-> 0, exp |-> ACCESS_TOKEN_EXPIRY, sig |-> TRUE]

\* what getAuthSignedCookie(c, "refresh_token") can yield: false (None), a
\* token the server issued, or a token it did not
RefreshCookies ==
    {None, ForgedRefreshToken, OrphanRefreshToken}
        \cup {refreshTokens[i].token : i \in RowIds}

\* what getAuthSignedCookie(c, "access_token") can yield
AccessCookies ==
    {None, ForgedAccessToken} \cup {accessTokens[i] : i \in 1..Len(accessTokens)}

\* the same, and the token of the removed account
ValidateCookies == AccessCookies \cup {DeletedUserAccessToken}

\* requests that have looked their row up and not yet inserted the new one
InFlight == {p \in Callers : proc[p].pc \in {"found", "revoked"}}

\* room in the table for one more row, counting the rows in-flight
\* rotations will insert
Room == Len(refreshTokens) + Cardinality(InFlight) < MaxRecords

\* where the presented refresh token stands when the handler reads the store
RefreshTokenStatus(token) ==
    IF token = None THEN "missing"
    ELSE IF ~token.sig THEN "badsig"
    ELSE IF now >= token.exp THEN "expired"
    ELSE IF ~\E i \in RowIds : refreshTokens[i].token = token THEN "absent"
    ELSE IF \E i \in RowIds : refreshTokens[i].token = token /\ refreshTokens[i].isRevoked
         THEN "revoked"
    ELSE "active"

AccessTokenStatus(token) ==
    IF token = None THEN "missing"
    ELSE IF ~token.sig THEN "badsig"
    ELSE IF now >= token.exp THEN "expired"
    ELSE "live"

\* what is known of a presented token when its request starts: its status,
\* whether a rotation with it has succeeded, whether a logout-all covered it
Pre(status, token) ==
    [status |-> status,
     replay |-> token # None /\ token.jti \in ghost.rotated,
     covered |-> token # None /\ token.jti \in ghost.covered]

\* the record of a response: the route, what the handler was given (the
\* credentials of a login, c.var.user behind requireAuth, None for a route
\* that reads the refresh cookie, whose standing is in pre), and the answer
Sent(op, input, pre, response) ==
    [op |-> op, input |-> input, pre |-> pre, response |-> response]

\* the pair a successful login or rotation mints: jti is the id of the row
\* the refresh token is stored in
NextJti == Len(refreshTokens) + 1

\* mint the pair for user and insert the row
Issue(user) ==
    /\ refreshTokens' =
           insertRefreshToken(refreshTokens, user, generateRefreshToken(user, NextJti))
    /\ accessTokens' = Append(accessTokens, generateAccessToken(user, NextJti))

\* ---------------------------------------------------------------- Actions

\* POST /api/auth/login
Login(email, password) ==
    /\ LET fail == postLoginFailure(email, password)
           user == findUserByEmail(email)
           input == [email |-> email, password |-> password]
       IN  IF fail # None
           THEN /\ sent' = Sent("login", input, None, fail)
                /\ UNCHANGED <<refreshTokens, accessTokens, ghost>>
           ELSE /\ Room
                /\ Issue(user)
                /\ ghost' = [ghost EXCEPT !.parent = Append(@, 0)]
                /\ sent' = Sent("login", input, None,
                                sessionPayload(user, now + ACCESS_TOKEN_EXPIRY))
    /\ UNCHANGED <<now, nticks, users, proc>>
    /\ UNCHANGED clientVars

\* GET /api/auth/google for the address of an existing account:
\* findOrCreateGoogleUser returns the row, createTokensForUser mints the pair
GoogleLogin(user) ==
    /\ Room
    /\ Issue(user)
    /\ ghost' = [ghost EXCEPT !.parent = Append(@, 0),
                              !.unverified = IF users[user].isVerified THEN @
                                             ELSE @ \cup {NextJti}]
    /\ sent' = Sent("google", [email |-> users[user].email], None,
                    [status |-> 302, body |-> None, cookies |-> CookiesSet])
    /\ UNCHANGED <<now, nticks, users, proc>>
    /\ UNCHANGED clientVars

\* POST /api/auth/refresh up to the first store write: the cookie, the
\* verification and the two lookups.  Callers are interchangeable: a new
\* request is the lowest caller that has none in flight
RefreshLookup(p, cookie) ==
    /\ proc[p].pc = "idle"
    /\ \A q \in Callers : q < p => proc[q].pc # "idle"
    /\ LET pre == Pre(RefreshTokenStatus(cookie), cookie) IN
       IF cookie = None
       THEN /\ sent' = Sent("refresh", None, pre,
                            failure(401, "Refresh token not available", CookiesUntouched))
            /\ UNCHANGED proc
       ELSE LET found == refreshTokenLookup(cookie) IN
            IF ~found.ok
            THEN /\ sent' = Sent("refresh", None, pre, postRefreshFailure(found.error))
                 /\ UNCHANGED proc
            ELSE /\ Room
                 /\ sent' = None
                 /\ proc' = [proc EXCEPT ![p] =
                        [pc |-> "found", tok |-> cookie, stored |-> found.stored, pre |-> pre]]
    /\ UNCHANGED <<now, nticks, users, refreshTokens, accessTokens, ghost>>
    /\ UNCHANGED clientVars

\* AuthService.refreshToken: mark the old row revoked
RefreshRevoke(p) ==
    /\ proc[p].pc = "found"
    /\ refreshTokens' = revokeById(refreshTokens, proc[p].stored)
    /\ proc' = [proc EXCEPT ![p].pc = "revoked"]
    /\ sent' = None
    /\ UNCHANGED <<now, nticks, users, accessTokens, ghost>>
    /\ UNCHANGED clientVars

\* AuthService.refreshToken: mint the new pair, insert its row, and the
\* route's 200
RefreshInsert(p) ==
    /\ proc[p].pc = "revoked"
    /\ LET user == findUserById(proc[p].tok.sub) IN
       /\ Issue(user)
       /\ sent' = Sent("refresh", None, proc[p].pre,
                       sessionPayload(user, now + ACCESS_TOKEN_EXPIRY))
    /\ ghost' = [ghost EXCEPT !.parent = Append(@, proc[p].stored),
                              !.rotated = @ \cup {proc[p].tok.jti},
                              !.unverified =
                                  IF users[findUserById(proc[p].tok.sub)].isVerified
                                  THEN @ ELSE @ \cup {NextJti}]
    /\ proc' = [proc EXCEPT ![p] = Idle]
    /\ UNCHANGED <<now, nticks, users>>
    /\ UNCHANGED clientVars

\* POST /api/auth/logout
Logout(cookie) ==
    /\ refreshTokens' = IF cookie = None THEN refreshTokens
                        ELSE revokeRefreshToken(refreshTokens, cookie)
    /\ sent' = Sent("logout", None, Pre(RefreshTokenStatus(cookie), cookie),
                    [status |-> 200, body |-> [success |-> TRUE], cookies |-> CookiesDeleted])
    /\ UNCHANGED <<now, nticks, users, accessTokens, proc, ghost>>
    /\ UNCHANGED clientVars

\* POST /api/auth/logout-all behind authMiddleware and requireAuth
LogoutAll(cookie) ==
    /\ LET user == authMiddleware(cookie)
           pre == Pre(AccessTokenStatus(cookie), cookie)
       IN  IF user = 0
           THEN /\ sent' = Sent("logoutAll", [user |-> 0], pre,
                                failure(401, "Authentication required", CookiesUntouched))
                /\ UNCHANGED <<refreshTokens, ghost>>
           ELSE /\ refreshTokens' = revokeAllUserRefreshTokens(refreshTokens, user)
                /\ ghost' = [ghost EXCEPT !.covered =
                       @ \cup {i \in RowIds : refreshTokens[i].userId = user}]
                /\ sent' = Sent("logoutAll", [user |-> user], pre,
                                [status |-> 200, body |-> [success |-> TRUE],
                                 cookies |-> CookiesDeleted])
    /\ UNCHANGED <<now, nticks, users, accessTokens, proc>>
    /\ UNCHANGED clientVars

\* const { passwordHash, ...userWithoutPassword } = user, with the id the row
\* is stored under
userWithoutPassword(user) ==
    [id |-> user, email |-> users[user].email, role |-> users[user].role,
     isVerified |-> users[user].isVerified]

\* GET /api/auth/me behind authMiddleware and requireAuth
Me(cookie) ==
    /\ LET user == authMiddleware(cookie)
           pre == Pre(AccessTokenStatus(cookie), cookie)
       IN  sent' = Sent("me", [token |-> cookie], pre,
               IF user = 0
               THEN failure(401, "Authentication required", CookiesUntouched)
               ELSE [status |-> 200,
                     body |-> [success |-> TRUE, user |-> userWithoutPassword(user)],
                     cookies |-> CookiesUntouched])
    /\ UNCHANGED <<now, nticks, users, refreshTokens, accessTokens, proc, ghost>>
    /\ UNCHANGED clientVars

\* the User-Agent and forwarded-address headers a request can carry
UserAgents == {"Chrome/120", "Firefox/121", "curl/8"}

IpAddresses == {"203.0.113.7", "198.51.100.9"}

Headers == [userAgent : UserAgents, ipAddress : IpAddresses]

\* the login route's metadata of a request: the two headers and the browser
\* family it reads off the user agent
metadataOf(headers) ==
    [userAgent |-> headers.userAgent, ipAddress |-> headers.ipAddress,
     family |-> CASE headers.userAgent = "Chrome/120" -> "Chrome"
                  [] headers.userAgent = "Firefox/121" -> "Firefox"
                  [] OTHER -> "Other"]

\* JwtService.generateAccessToken with the fingerprint AuthService.login
\* passes: the payload carries it
generateAccessTokenFor(userId, jti, fingerprint) ==
    generateAccessToken(userId, jti) @@ [fingerprint |-> fingerprint]

\* POST /api/auth/login with the right password of a verified account, from
\* a request with these headers: the access token is bound to its metadata
LoginFrom(user, headers) ==
    /\ postLoginFailure(users[user].email, user) = None
    /\ Room
    /\ refreshTokens' =
           insertRefreshToken(refreshTokens, user, generateRefreshToken(user, NextJti))
    /\ accessTokens' =
           Append(accessTokens,
                  generateAccessTokenFor(user, NextJti, metadataOf(headers)))
    /\ ghost' = [ghost EXCEPT !.parent = Append(@, 0)]
    /\ sent' = Sent("login", [email |-> users[user].email, headers |-> headers], None,
                    sessionPayload(user, now + ACCESS_TOKEN_EXPIRY))
    /\ UNCHANGED <<now, nticks, users, proc>>
    /\ UNCHANGED clientVars

\* GET /api/auth/me from a request with these headers: authMiddleware hands
\* the cookie to validateAccessToken and nothing else of the request
MeFrom(cookie, headers) ==
    /\ LET user == authMiddleware(cookie)
           pre == Pre(AccessTokenStatus(cookie), cookie)
       IN  sent' = Sent("me", [token |-> cookie, headers |-> headers], pre,
               IF user = 0
               THEN failure(401, "Authentication required", CookiesUntouched)
               ELSE [status |-> 200,
                     body |-> [success |-> TRUE, user |-> userWithoutPassword(user)],
                     cookies |-> CookiesUntouched])
    /\ UNCHANGED <<now, nticks, users, refreshTokens, accessTokens, proc, ghost>>
    /\ UNCHANGED clientVars

\* the message of the Error a failing store access throws (the driver's
\* text), as the catch branches of the routes receive it
StoreErrorText == "connect ECONNREFUSED 127.0.0.1:5432"

\* the standing of a request one of whose store accesses threw
StoreFailure == [status |-> "storeFailure", replay |-> FALSE, covered |-> FALSE]

\* POST /api/auth/login when a store access throws: the route's users lookup
\* ("lookup"), or the insert of the row in AuthService.login after the
\* credentials were accepted ("insert").  The inner catch answers 401 with
\* the error's message; nothing was written, no cookie is set
LoginStoreFailure(email, password, at) ==
    /\ at = "insert" => postLoginFailure(email, password) = None
    /\ sent' = Sent("login", [email |-> email, password |-> password], StoreFailure,
                    failure(401, StoreErrorText, CookiesUntouched))
    /\ UNCHANGED <<now, nticks, users, refreshTokens, accessTokens, proc, ghost>>
    /\ UNCHANGED clientVars

\* POST /api/auth/refresh when the lookup of the row throws: the catch
\* branch of the route
RefreshLookupStoreFailure(p, cookie) ==
    /\ proc[p].pc = "idle"
    /\ \A q \in Callers : q < p => proc[q].pc # "idle"
    /\ cookie # None
    /\ verifyRefreshToken(cookie) # None
    /\ sent' = Sent("refresh", None, StoreFailure, postRefreshFailure(StoreErrorText))
    /\ UNCHANGED <<now, nticks, users, refreshTokens, accessTokens, proc, ghost>>
    /\ UNCHANGED clientVars

\* POST /api/auth/refresh when the next write of the rotation throws: the
\* update of the old row (pc "found") or the insert of the new one (pc
\* "revoked").  AuthService.refreshToken has no try/catch: the request ends
\* in the catch branch of the route
RefreshWriteStoreFailure(p) ==
    /\ proc[p].pc \in {"found", "revoked"}
    /\ proc' = [proc EXCEPT ![p] = Idle]
    /\ sent' = Sent("refresh", None, StoreFailure, postRefreshFailure(StoreErrorText))
    /\ UNCHANGED <<now, nticks, users, refreshTokens, accessTokens, ghost>>
    /\ UNCHANGED clientVars

\* a request to a route mounted behind authMiddleware and one guard: the
\* guard's answer, or the handler's when the guard calls next(); next tells
\* whether the handler ran
Guarded(guard, cookie) ==
    /\ LET user == authMiddleware(cookie)
           answer == guardAnswer(guard, user)
       IN  sent' = Sent(guard, [user |-> user], Pre(AccessTokenStatus(cookie), cookie),
                       IF answer = None
                       THEN [status |-> 200, body |-> [success |-> TRUE],
                             cookies |-> CookiesUntouched, next |-> TRUE]
                       ELSE [status |-> answer.status, body |-> answer.body,
                             cookies |-> answer.cookies, next |-> FALSE])
    /\ UNCHANGED <<now, nticks, users, refreshTokens, accessTokens, proc, ghost>>
    /\ UNCHANGED clientVars

\* GET /api/auth/verify-email with a live verification token of the user
VerifyEmail(user) ==
    /\ ~users[user].isVerified
    /\ users' = [users EXCEPT ![user].isVerified = TRUE]
    /\ sent' = None
    /\ UNCHANGED <<now, nticks, refreshTokens, accessTokens, proc, ghost>>
    /\ UNCHANGED clientVars

\* time passes: the life of an access token, or that of a refresh token
Tick(d) ==
    /\ nticks < MaxTicks
    /\ now' = now + d
    /\ nticks' = nticks + 1
    /\ sent' = None
    /\ UNCHANGED <<users, refreshTokens, accessTokens, proc, ghost>>
    /\ UNCHANGED clientVars

\* ------------------------------------------------------------------ Client

\* new Date(ms).toISOString() and new Date(iso).getTime(): a stored time is a
\* string, compared only after it is parsed
toISOString(ms) == [iso |-> ms]

getTime(iso) == iso.iso

\* hasAuthCookie: document.cookie shows auth_status; access_token and
\* refresh_token are httpOnly and never show
hasAuthCookie == marker

\* getAuthCookieExpiry: null without a cookie; else lastSuccessfulAuth's
\* expiryTime when it is at most 20 minutes ahead; else 15 minutes after a
\* lastSuccessfulRefresh of the cached state less than 5 minutes old; else 15
\* minutes from now
getAuthCookieExpiryOf(cookie, stored) ==
    IF ~cookie THEN None
    ELSE IF /\ stored.lastSuccessfulAuth # None
            /\ getTime(stored.lastSuccessfulAuth.expiryTime) <= cnow + TWENTY_MINUTES
         THEN stored.lastSuccessfulAuth.expiryTime
    ELSE IF /\ stored.reduxState # None
            /\ stored.reduxState.lastSuccessfulRefresh # None
            /\ cnow - getTime(stored.reduxState.lastSuccessfulRefresh) < FIVE_MINUTES
         THEN toISOString(getTime(stored.reduxState.lastSuccessfulRefresh) + FIFTEEN_MINUTES)
    ELSE toISOString(cnow + FIFTEEN_MINUTES)

\* the same over the cookies and the sessionStorage of the tab as they are
getAuthCookieExpiry == getAuthCookieExpiryOf(hasAuthCookie, storage)

\* isSuspiciousExpiry of loadState
isSuspiciousExpiry(expiryTime) ==
    \/ expiryTime > cnow + TWENTY_MINUTES
    \/ expiryTime < cnow /\ hasAuthCookie
    \/ expiryTime < cnow - ONE_HOUR

\* loadState: the preloaded auth state of the store, None for undefined
loadState(preloaded) ==
    IF preloaded # None THEN preloaded
    ELSE IF storage.reduxState = None THEN None
    ELSE LET parsedState == storage.reduxState IN
         IF parsedState.user # None /\ ~hasAuthCookie
         THEN initialState
         ELSE IF /\ parsedState.user # None
                 /\ hasAuthCookie
                 /\ parsedState.expiresAt # None
                 /\ isSuspiciousExpiry(getTime(parsedState.expiresAt))
                 /\ getAuthCookieExpiry # None
              THEN [parsedState EXCEPT !.expiresAt = getAuthCookieExpiry]
              ELSE parsedState

\* ------------------------------------------------- reducers of authSlice

\* setCredentials: the expiry the cookies give wins over the payload's
setCredentials(a, payload, cookieExpiry) ==
    [a EXCEPT !.logoutInProgress = FALSE,
              !.user = payload.user,
              !.expiresAt = IF cookieExpiry # None THEN cookieExpiry
                            ELSE payload.expiresAt,
              !.source = IF "source" \in DOMAIN payload THEN payload.source
                         ELSE "client",
              !.lastSuccessfulRefresh = toISOString(cnow)]

\* a clearCredentials that sets the flags and leaves user and expiresAt
keepCredentials(a) ==
    [a EXCEPT !.logoutInProgress = TRUE,
              !.refreshInProgress = FALSE]

clearCredentials(a) ==
    [a EXCEPT !.logoutInProgress = TRUE,
              !.user = None,
              !.expiresAt = None,
              !.isLoading = FALSE,
              !.source = "null",
              !.refreshInProgress = FALSE]

\* syncServerAuth: taken only with a user in the payload and no logout in
\* progress
syncServerAuth(a, payload) ==
    IF payload.user # None /\ ~a.logoutInProgress
    THEN [a EXCEPT !.user = payload.user,
                   !.expiresAt = payload.expiresAt,
                   !.source = "server",
                   !.logoutInProgress = FALSE]
    ELSE a

setLogoutInProgress(a, value) == [a EXCEPT !.logoutInProgress = value]

resetLogoutProcess(a) == [a EXCEPT !.logoutInProgress = FALSE]

\* extraReducers: authApi.endpoints.refresh matchPending, matchFulfilled,
\* matchRejected
refreshMatchPending(a) ==
    [a EXCEPT !.isLoading = TRUE, !.refreshInProgress = TRUE]

refreshMatchFulfilled(a, payload) ==
    LET b == IF ~a.logoutInProgress /\ payload.success
             THEN [a EXCEPT !.expiresAt = payload.expiresAt,
                            !.lastSuccessfulRefresh = toISOString(cnow),
                            !.logoutInProgress = FALSE]
             ELSE a
    IN [b EXCEPT !.isLoading = FALSE, !.refreshInProgress = FALSE]

refreshMatchRejected(a) ==
    [a EXCEPT !.isLoading = FALSE, !.refreshInProgress = FALSE]

\* extraReducers: authApi.endpoints.logout matchPending and matchFulfilled
logoutMatchPending(a) ==
    [a EXCEPT !.isLoading = TRUE, !.logoutInProgress = TRUE]

logoutMatchFulfilled(a) ==
    [a EXCEPT !.logoutInProgress = TRUE,
              !.user = None,
              !.expiresAt = None,
              !.isLoading = FALSE,
              !.source = "null",
              !.refreshInProgress = FALSE]

\* extraReducers: authApi.endpoints.me matchPending, matchFulfilled and
\* matchRejected
meMatchPending(a) == [a EXCEPT !.isLoading = TRUE]

meMatchFulfilled(a, payload) ==
    LET b == IF ~a.logoutInProgress /\ payload.success /\ payload.user # None
             THEN [a EXCEPT !.user = payload.user,
                            !.expiresAt = IF a.expiresAt = None
                                          THEN toISOString(cnow + FIFTEEN_MINUTES)
                                          ELSE a.expiresAt,
                            !.source = "client",
                            !.logoutInProgress = FALSE]
             ELSE a
    IN [b EXCEPT !.isLoading = FALSE]

meMatchRejected(a) == [a EXCEPT !.isLoading = FALSE]

\* the page loads: configureStore({ preloadedState: loadState() }), the
\* slice's initialState standing in for undefined
\* A page load ends what the previous page was doing: its component state,
\* its timers and the handlers of its requests are gone
Boot(preloaded) ==
    /\ auth' = IF loadState(preloaded) = None THEN initialState ELSE loadState(preloaded)
    /\ event' = [op |-> "loadState", preloaded |-> preloaded]
    /\ provider' = freshProvider
    /\ requests' = NoRequests
    /\ timers' = [checkedAt |-> cnow, loginTimer |-> None,
                   cookieCheck |-> ~auth'.logoutInProgress]
    /\ cghost' = [cghost EXCEPT !.lastScheduled = None]
    /\ UNCHANGED <<cnow, storage, marker>>
    /\ UNCHANGED serverVars

\* the browser's clock advances by d units, up to the horizon of the model
ClientTick(d, horizon) ==
    /\ cnow + d <= horizon
    /\ cnow' = cnow + d
    /\ event' = None
    /\ UNCHANGED <<storage, marker, auth, provider, requests, timers, cghost>>
    /\ UNCHANGED serverVars

\* ------------------------------------------------------------ AuthProvider

\* the user of a cached session: the row of user 1 without the password hash
CachedUser == [id |-> 1, email |-> 1, role |-> "admin", isVerified |-> TRUE]

\* resetLoginState, its part on the provider: both refs and both local flags
\* go back to false (its dispatch of resetLogoutProcess is applied to auth
\* where it is called)
resetLoginState(p) ==
    [p EXCEPT !.redirectInProgressRef = FALSE,
              !.refreshInProgressRef = FALSE,
              !.isLoggingOut = FALSE,
              !.isRedirecting = FALSE]

\* the logout or redirect flags a handler reads before it acts
LogoutFlags ==
    \/ provider.isLoggingOut
    \/ provider.isRedirecting
    \/ auth.logoutInProgress
    \/ provider.redirectInProgressRef

\* shouldRefreshToken
shouldRefreshToken ==
    /\ auth.user # None
    /\ auth.expiresAt # None
    /\ hasAuthCookie
    /\ ~LogoutFlags
    /\ ~provider.refreshInProgressRef
    /\ LET timeUntilExpiry == getTime(auth.expiresAt) - cnow
           canRefreshAgain ==
               \/ provider.lastSuccessfulRefresh = None
               \/ cnow - getTime(provider.lastSuccessfulRefresh) > ONE_MINUTE
       IN /\ timeUntilExpiry > 0
          /\ timeUntilExpiry < THREE_MINUTES
          /\ canRefreshAgain

\* the refresh effect sets its 30 second interval only for a session with
\* no logout or redirect under way
IntervalSet ==
    /\ auth.user # None
    /\ auth.expiresAt # None
    /\ ~LogoutFlags

\* the values the refresh effect depends on: when one changes, the interval
\* is cleared and set again, and counts its 30 seconds from then
Deps ==
    <<auth.user, auth.expiresAt, auth.logoutInProgress, provider.isLoggingOut,
      provider.isRedirecting, provider.lastSuccessfulRefresh>>

\* the values the checkAuthCookie effect depends on
cookieDeps(a, p) ==
    <<a.user # None, a.isLoading, p.isLoggingOut, p.isRedirecting, a.logoutInProgress>>

\* the checkAuthCookie effect sets its 10 second interval unless it returns
\* early on a flag or a ref
cookieCheckSet(a, p) ==
    ~ \/ p.isLoggingOut
      \/ p.isRedirecting
      \/ a.logoutInProgress
      \/ p.redirectInProgressRef
      \/ p.refreshInProgressRef

\* the checkAuthCookie effect after a render: a changed dependency clears the
\* interval and runs the effect again, the refs as they are at that moment
cookieEffect(cc, a0, p0, a1, p1) ==
    IF cookieDeps(a1, p1) # cookieDeps(a0, p0) THEN cookieCheckSet(a1, p1) ELSE cc

\* the timers after an awaited request was answered.  The reducer changes
\* the state (a1) and the provider renders; the code that awaited the request
\* goes on, changing state and refs, and the provider renders again.  Whether
\* the effects of the first render run before the awaiting code goes on is
\* the scheduler's choice, so the cookie check's interval is either as the
\* effect leaves it seeing the state of the end, or as it leaves it seeing
\* a1 with the refs of before and then the end
ScheduleAwaited(loginTimer, a1) ==
    \E cookieCheck \in
          {cookieEffect(timers.cookieCheck, auth, provider, auth', provider'),
           cookieEffect(cookieEffect(timers.cookieCheck, auth, provider, a1, provider),
                        a1, provider, auth', provider')} :
       timers' = [checkedAt |-> IF Deps' # Deps THEN cnow ELSE timers.checkedAt,
                  loginTimer |-> loginTimer,
                  cookieCheck |-> cookieCheck]

\* the timers after a handler ran: the intervals as the effects leave them,
\* the login page's timer as given
Schedule(loginTimer) == ScheduleAwaited(loginTimer, auth)

\* a refresh request as it leaves the page: who started it, whether
\* onQueryStarted returned at once because a logout was in progress, and the
\* user the caller's closure holds
Flight(origin, skip, user) == [origin |-> origin, skip |-> skip, user |-> user]

\* the interval fires, 30 seconds after it was set or fired: the callback
\* returns early on a flag or a refresh of its own in progress, and starts a
\* refresh when shouldRefreshToken says so
ScheduledCheck ==
    /\ auth # None
    /\ IntervalSet
    /\ cnow > timers.checkedAt
    /\ shouldRefreshToken => Len(requests.refresh) < MaxFlights
    /\ IF shouldRefreshToken
       THEN /\ provider' = [provider EXCEPT !.refreshInProgressRef = TRUE]
            /\ auth' = refreshMatchPending(auth)
            /\ requests' = [requests EXCEPT !.refresh =
                   Append(@, Flight("scheduled", auth.logoutInProgress, auth.user))]
            /\ event' = [op |-> "refreshStart", origin |-> "scheduled",
                         at |-> cnow, expiresAt |-> auth.expiresAt,
                         previous |-> cghost.lastScheduled,
                         inFlight |-> Len(requests.refresh)]
            /\ cghost' = [cghost EXCEPT !.lastScheduled = [at |-> cnow]]
       ELSE /\ event' = None
            /\ UNCHANGED <<provider, auth, requests, cghost>>
    /\ timers' = [timers EXCEPT !.checkedAt = cnow,
                                 !.cookieCheck = cookieEffect(@, auth, provider,
                                                              auth', provider')]
    /\ UNCHANGED <<cnow, storage, marker>>
    /\ UNCHANGED serverVars

\* manualRefreshToken up to its await: past its three guards it sets
\* refreshInProgressRef, and resetLoginState sets it back before the request
\* leaves
ManualRefresh ==
    /\ auth # None
    /\ ~LogoutFlags
    /\ hasAuthCookie
    /\ ~provider.refreshInProgressRef
    /\ Len(requests.refresh) < MaxFlights
    /\ provider' = resetLoginState([provider EXCEPT !.refreshInProgressRef = TRUE])
    /\ auth' = refreshMatchPending(resetLogoutProcess(auth))
    /\ requests' = [requests EXCEPT !.refresh =
           Append(@, Flight("manual", resetLogoutProcess(auth).logoutInProgress,
                            auth.user))]
    /\ event' = [op |-> "refreshStart", origin |-> "manual", at |-> cnow,
                 expiresAt |-> auth.expiresAt, previous |-> cghost.lastScheduled,
                 inFlight |-> Len(requests.refresh)]
    /\ Schedule(timers.loginTimer)
    /\ UNCHANGED <<cnow, storage, marker, cghost>>
    /\ UNCHANGED serverVars

\* the timer setupRTKQTokenRefresh set on the login page fires: it resets the
\* logout flag and sends a refresh, asking no ref
LoginTimerRefresh ==
    /\ auth # None
    /\ timers.loginTimer # None
    /\ cnow >= getTime(timers.loginTimer)
    /\ Len(requests.refresh) < MaxFlights
    /\ auth' = refreshMatchPending(resetLogoutProcess(auth))
    /\ requests' = [requests EXCEPT !.refresh =
           Append(@, Flight("loginTimer", resetLogoutProcess(auth).logoutInProgress,
                            None))]
    /\ event' = [op |-> "refreshStart", origin |-> "loginTimer", at |-> cnow,
                 expiresAt |-> auth.expiresAt, previous |-> cghost.lastScheduled,
                 inFlight |-> Len(requests.refresh)]
    /\ UNCHANGED <<cnow, storage, marker, provider, cghost>>
    /\ UNCHANGED serverVars
    /\ Schedule(None)

\* the requests in flight without the i-th
RemoveAt(seq, i) == SubSeq(seq, 1, i - 1) \o SubSeq(seq, i + 1, Len(seq))

\* the refresh endpoint's onQueryStarted after queryFulfilled, for a request
\* it did not return early on: the logout flag is reset, then read, and the
\* user of the state gets the new expiry
refreshQueryFulfilled(a, data, cookieExpiry) ==
    LET b == resetLogoutProcess(a) IN
    IF b.logoutInProgress THEN b
    ELSE IF data.success /\ b.user # None
         THEN setCredentials(b, [user |-> b.user, expiresAt |-> data.expiresAt],
                             cookieExpiry)
         ELSE b

\* the i-th refresh request in flight is answered 200 with new cookies: the
\* reducer, then onQueryStarted, then the caller that awaited it.  The caller
\* reads isAuthenticated, isLoggingOut, isRedirecting and logoutInProgress as
\* its closure holds them, i.e. as they were when it sent the request
\* (authenticated, no flag), and redirectInProgressRef as it is now
RefreshFulfilled(i) ==
    /\ i \in 1..Len(requests.refresh)
    /\ LET r == requests.refresh[i]
           data == [success |-> TRUE, expiresAt |-> toISOString(cnow + FIFTEEN_MINUTES)]
           cookieExpiry == getAuthCookieExpiryOf(TRUE, storage)
           a1 == refreshMatchFulfilled(auth, data)
           a2 == IF r.skip THEN a1 ELSE refreshQueryFulfilled(a1, data, cookieExpiry)
           payload == [user |-> r.user, expiresAt |-> data.expiresAt]
       IN /\ marker' = TRUE
          /\ CASE r.origin = "scheduled" ->
                    LET p1 == resetLoginState(provider)
                        a3 == resetLogoutProcess(a2)
                    IN IF r.user # None /\ ~p1.redirectInProgressRef /\ data.success
                       THEN /\ provider' = [p1 EXCEPT !.lastSuccessfulRefresh = toISOString(cnow)]
                            /\ auth' = setCredentials(a3, payload, cookieExpiry)
                            /\ ScheduleAwaited(timers.loginTimer, a1)
                       ELSE /\ provider' = p1
                            /\ auth' = a3
                            /\ ScheduleAwaited(timers.loginTimer, a1)
               [] r.origin = "manual" ->
                    IF provider.redirectInProgressRef
                    THEN /\ provider' = [provider EXCEPT !.refreshInProgressRef = FALSE]
                         /\ auth' = a2
                         /\ ScheduleAwaited(timers.loginTimer, a1)
                    ELSE /\ provider' = [provider EXCEPT
                                 !.lastSuccessfulRefresh = toISOString(cnow),
                                 !.refreshInProgressRef = FALSE]
                         /\ auth' = setCredentials(a2, payload, cookieExpiry)
                         /\ ScheduleAwaited(timers.loginTimer, a1)
               [] r.origin = "loginTimer" ->
                    /\ provider' = provider
                    /\ auth' = a2
                    /\ ScheduleAwaited(toISOString(cnow + FIFTEEN_MINUTES - ONE_MINUTE), a1)
          /\ event' = [op |-> "refreshFulfilled", origin |-> r.origin,
                       duringLogout |-> requests.logout # "none",
                       user |-> auth.user, loggingOut |-> LogoutFlags,
                       expiresAt |-> data.expiresAt]
    /\ requests' = [requests EXCEPT !.refresh = RemoveAt(@, i)]
    /\ UNCHANGED <<cnow, storage, cghost>>
    /\ UNCHANGED serverVars

\* the i-th refresh request in flight is answered 401, or not at all: the
\* reducer, onQueryStarted's catch, the caller's catch and the provider's
\* error effect each clear the credentials
RefreshRejected(i) ==
    /\ i \in 1..Len(requests.refresh)
    /\ LET r == requests.refresh[i]
           a1 == refreshMatchRejected(auth)
           a2 == IF r.skip THEN a1 ELSE clearCredentials(a1)
       IN /\ IF r.origin = "loginTimer"
             THEN /\ auth' = a2
                  /\ provider' = provider
             ELSE /\ auth' = clearCredentials(a2)
                  /\ provider' = [provider EXCEPT !.refreshInProgressRef = FALSE]
          /\ event' = [op |-> "refreshRejected", origin |-> r.origin,
                       duringLogout |-> requests.logout # "none",
                       hadUser |-> auth.user # None]
          /\ ScheduleAwaited(timers.loginTimer, a1)
    /\ requests' = [requests EXCEPT !.refresh = RemoveAt(@, i)]
    /\ UNCHANGED <<cnow, storage, marker, cghost>>
    /\ UNCHANGED serverVars

\* the auth_status cookie is gone from document.cookie: its maxAge ran out,
\* or a response deleted it
MarkerGone ==
    /\ auth # None
    /\ marker
    /\ marker' = FALSE
    /\ event' = [op |-> "markerGone", user |-> auth.user,
                 refreshing |-> provider.refreshInProgressRef]
    /\ UNCHANGED <<cnow, storage, auth, provider, requests, timers, cghost>>
    /\ UNCHANGED serverVars

\* checkAuthCookie, run by its 10 second interval where the effect set one:
\* the callback returns early on a flag or a ref, and clears a user the
\* state holds without the auth_status cookie
CheckAuthCookie ==
    /\ auth # None
    /\ timers.cookieCheck
    /\ cookieCheckSet(auth, provider)
    /\ ~hasAuthCookie
    /\ auth.user # None
    /\ auth' = clearCredentials(auth)
    /\ event' = [op |-> "checkAuthCookie"]
    /\ UNCHANGED <<cnow, storage, marker, provider, requests, cghost>>
    /\ UNCHANGED serverVars
    /\ Schedule(timers.loginTimer)

\* the login page or the layout mounts with no logout of this page under
\* way: resetLogoutProcess and resetLoginState
ResetOnMount ==
    /\ auth # None
    /\ requests.logout = "none"
    /\ auth.logoutInProgress \/ provider # resetLoginState(provider)
    /\ auth' = resetLogoutProcess(auth)
    /\ provider' = resetLoginState(provider)
    /\ event' = [op |-> "mount"]
    /\ Schedule(timers.loginTimer)
    /\ UNCHANGED <<cnow, storage, marker, requests, cghost>>
    /\ UNCHANGED serverVars

\* the login action answered with a user and an expiry, the server having
\* set the cookies: the login page resets the logout flag, sets the
\* credentials and sets its own refresh timer one minute before the expiry
LoginSuccess ==
    /\ auth # None
    /\ auth.user = None
    /\ requests.logout = "none"
    /\ marker' = TRUE
    /\ auth' = setCredentials(resetLogoutProcess(auth),
                              [user |-> CachedUser,
                               expiresAt |-> toISOString(cnow + FIFTEEN_MINUTES),
                               source |-> "server"],
                              getAuthCookieExpiryOf(TRUE, storage))
    /\ provider' = resetLoginState(provider)
    /\ event' = [op |-> "login"]
    /\ Schedule(toISOString(cnow + FIFTEEN_MINUTES - ONE_MINUTE))
    /\ cghost' = [cghost EXCEPT !.logoutInvoked = FALSE]
    /\ UNCHANGED <<cnow, storage, requests>>
    /\ UNCHANGED serverVars

\* useMeQuery, not skipped, is answered with the user of the cookies:
\* transformResponse notes lastSuccessfulAuth, the reducer takes the user
\* and, where the state has none, an expiry 15 minutes ahead
MeFulfilled ==
    /\ auth # None
    /\ auth.user = None
    /\ hasAuthCookie
    /\ ~LogoutFlags
    /\ storage' = [storage EXCEPT !.lastSuccessfulAuth =
                       [expiryTime |-> toISOString(cnow + FIFTEEN_MINUTES)]]
    /\ auth' = resetLogoutProcess(
                   meMatchFulfilled(meMatchPending(auth),
                                    [success |-> TRUE, user |-> CachedUser]))
    /\ event' = [op |-> "me"]
    /\ UNCHANGED <<cnow, marker, provider, requests, cghost>>
    /\ UNCHANGED serverVars
    /\ Schedule(timers.loginTimer)

\* handleLogout up to its await: the refs and flags are set, the credentials
\* cleared, and the logout request leaves
HandleLogout ==
    /\ auth # None
    /\ auth.user # None
    /\ requests.logout = "none"
    /\ provider' = [provider EXCEPT !.redirectInProgressRef = TRUE,
                                    !.refreshInProgressRef = FALSE,
                                    !.isLoggingOut = TRUE,
                                    !.isRedirecting = TRUE]
    /\ auth' = logoutMatchPending(clearCredentials(setLogoutInProgress(auth, TRUE)))
    /\ requests' = [requests EXCEPT !.logout = "sent"]
    /\ event' = [op |-> "handleLogout"]
    /\ cghost' = [cghost EXCEPT !.logoutInvoked = TRUE]
    /\ Schedule(timers.loginTimer)
    /\ UNCHANGED <<cnow, storage, marker>>
    /\ UNCHANGED serverVars

\* the logout request is answered 200, the cookies deleted; handleLogout
\* sets its 500 ms timer for the redirect
LogoutFulfilled ==
    /\ requests.logout = "sent"
    /\ marker' = FALSE
    /\ auth' = clearCredentials(logoutMatchFulfilled(auth))
    /\ requests' = [requests EXCEPT !.logout = "redirecting"]
    /\ event' = [op |-> "logoutFulfilled"]
    /\ UNCHANGED <<cnow, storage, provider, cghost>>
    /\ UNCHANGED serverVars
    /\ Schedule(timers.loginTimer)

\* the logout request fails: the cookies stay, onQueryStarted's catch clears
\* the credentials, handleLogout goes on to the redirect
LogoutRejected ==
    /\ requests.logout = "sent"
    /\ auth' = clearCredentials(auth)
    /\ requests' = [requests EXCEPT !.logout = "redirecting"]
    /\ event' = [op |-> "logoutRejected"]
    /\ UNCHANGED <<cnow, storage, marker, provider, cghost>>
    /\ UNCHANGED serverVars
    /\ Schedule(timers.loginTimer)

\* the store's subscriber, one second after the last change of the store:
\* saveState
SaveState ==
    /\ auth # None
    /\ storage.reduxState # auth
    /\ storage' = [storage EXCEPT !.reduxState = auth]
    /\ event' = [op |-> "saveState"]
    /\ UNCHANGED <<cnow, marker, auth, provider, requests, timers, cghost>>
    /\ UNCHANGED serverVars

\* --------------------------------------------------------------- authSlice

\* the actions the slice has a reducer or a matcher for, and the rejected
\* logout it has none for
SliceActions ==
    {"setCredentials", "clearCredentials", "syncServerAuth",
     "me/pending", "me/fulfilled", "me/rejected",
     "refresh/pending", "refresh/fulfilled", "refresh/rejected",
     "logout/pending", "logout/fulfilled", "logout/rejected"}

\* authSlice.reducer, with the payloads the callers build: a user with an
\* expiry 15 minutes ahead
reducer(a, type) ==
    LET expiresAt == toISOString(cnow + FIFTEEN_MINUTES) IN
    CASE type = "setCredentials" ->
             setCredentials(a, [user |-> CachedUser, expiresAt |-> expiresAt],
                            getAuthCookieExpiry)
      [] type = "clearCredentials" -> clearCredentials(a)
      [] type = "syncServerAuth" ->
             syncServerAuth(a, [user |-> CachedUser, expiresAt |-> expiresAt])
      [] type = "me/pending" -> meMatchPending(a)
      [] type = "me/fulfilled" ->
             meMatchFulfilled(a, [success |-> TRUE, user |-> CachedUser])
      [] type = "me/rejected" -> meMatchRejected(a)
      [] type = "refresh/pending" -> refreshMatchPending(a)
      [] type = "refresh/fulfilled" ->
             refreshMatchFulfilled(a, [success |-> TRUE, expiresAt |-> expiresAt])
      [] type = "refresh/rejected" -> refreshMatchRejected(a)
      [] type = "logout/pending" -> logoutMatchPending(a)
      [] type = "logout/fulfilled" -> logoutMatchFulfilled(a)
      [] type = "logout/rejected" -> a

\* store.dispatch of one action of the slice
Dispatch(type) ==
    /\ auth # None
    /\ auth' = reducer(auth, type)
    /\ event' = [op |-> "dispatch", type |-> type, user |-> auth.user]
    /\ UNCHANGED <<cnow, storage, marker, provider, requests, timers, cghost>>
    /\ UNCHANGED serverVars

\* handleRequest of entry.server.tsx for a page, auth being the auth slice of
\* the store the server process imports: on a protected route, a request
\* whose cookies name a user dispatches syncServerAuth to that store; the
\* page is rendered, and store.getState() is injected into the HTML
HandleRequest(cookie, protected) ==
    /\ auth # None
    /\ LET user == authMiddleware(cookie)
           synced ==
               IF protected /\ cookie # None /\ user # 0
               THEN syncServerAuth(auth,
                        [user |-> userWithoutPassword(user),
                         expiresAt |-> toISOString(cnow + FIFTEEN_MINUTES)])
               ELSE auth
       IN /\ auth' = synced
          /\ sent' = Sent("render", [user |-> user, protected |-> protected],
                          Pre(AccessTokenStatus(cookie), cookie),
                          [status |-> 200, body |-> [preloadedState |-> synced],
                           cookies |-> CookiesUntouched])
    /\ UNCHANGED <<now, nticks, users, refreshTokens, accessTokens, proc, ghost>>
    /\ UNCHANGED <<cnow, storage, marker, event, provider, requests, timers, cghost>>

\* rotation and revocation in the sessions of one account, two refresh
\* requests at a time
Next ==
    \/ Login(users[1].email, 1)
    \/ GoogleLogin(1)
    \/ \E p \in Callers, cookie \in RefreshCookies : RefreshLookup(p, cookie)
    \/ \E p \in Callers : RefreshRevoke(p)
    \/ \E p \in Callers : RefreshInsert(p)
    \/ \E cookie \in RefreshCookies : Logout(cookie)
    \/ \E cookie \in AccessCookies : LogoutAll(cookie)
    \/ Tick(REFRESH_TOKEN_EXPIRY)

Spec == Init /\ [][Next]_vars

\* the sessions of two accounts, one refresh request at a time
NextUsers ==
    \/ \E user \in UserIds : Login(users[user].email, user)
    \/ \E user \in UserIds : GoogleLogin(user)
    \/ \E cookie \in RefreshCookies : RefreshLookup(1, cookie)
    \/ RefreshRevoke(1)
    \/ RefreshInsert(1)
    \/ \E cookie \in AccessCookies : LogoutAll(cookie)
    \/ \E user \in UserIds : VerifyEmail(user)
    \/ Tick(REFRESH_TOKEN_EXPIRY)

SpecUsers == Init /\ [][NextUsers]_vars

\* the login route under every kind of credentials, accounts being verified
\* meanwhile
NextLogin ==
    \/ \E email \in Emails, password \in Passwords : Login(email, password)
    \/ \E user \in UserIds : VerifyEmail(user)
    \/ \E cookie \in RefreshCookies : Logout(cookie)
    \/ \E d \in {ACCESS_TOKEN_EXPIRY, REFRESH_TOKEN_EXPIRY} : Tick(d)

SpecLogin == Init /\ [][NextLogin]_vars

\* access-token validation next to logout-all and rotation
NextValidate ==
    \/ Login(users[1].email, 1)
    \/ \E cookie \in RefreshCookies : RefreshLookup(1, cookie)
    \/ RefreshRevoke(1)
    \/ RefreshInsert(1)
    \/ \E cookie \in AccessCookies : LogoutAll(cookie)
    \/ \E cookie \in AccessCookies : Me(cookie)
    \/ \E d \in {ACCESS_TOKEN_EXPIRY, REFRESH_TOKEN_EXPIRY} : Tick(d)

SpecValidate == Init /\ [][NextValidate]_vars

\* access-token validation while accounts are verified: sessions opened
\* through Google, which does not ask for a verified address
NextRecord ==
    \/ \E user \in UserIds : GoogleLogin(user)
    \/ \E user \in UserIds : VerifyEmail(user)
    \/ \E cookie \in ValidateCookies : Me(cookie)
    \/ \E d \in {ACCESS_TOKEN_EXPIRY, REFRESH_TOKEN_EXPIRY} : Tick(d)

SpecRecord == Init /\ [][NextRecord]_vars

\* login and rotation over a store whose accesses can throw
NextFaults ==
    \/ \E email \in Emails, password \in Passwords : Login(email, password)
    \/ \E email \in Emails, password \in Passwords, at \in {"lookup", "insert"} :
          LoginStoreFailure(email, password, at)
    \/ \E cookie \in RefreshCookies : RefreshLookup(1, cookie)
    \/ RefreshRevoke(1)
    \/ RefreshInsert(1)
    \/ \E cookie \in RefreshCookies : RefreshLookupStoreFailure(1, cookie)
    \/ RefreshWriteStoreFailure(1)
    \/ Tick(REFRESH_TOKEN_EXPIRY)

SpecFaults == Init /\ [][NextFaults]_vars

\* logins from several devices, and every access token presented from
\* every device
NextFingerprint ==
    \/ \E headers \in Headers : LoginFrom(1, headers)
    \/ \E i \in 1..MaxRecords, headers \in Headers :
          /\ i <= Len(accessTokens)
          /\ MeFrom(accessTokens[i], headers)
    \/ Tick(ACCESS_TOKEN_EXPIRY)

SpecFingerprint == Init /\ [][NextFingerprint]_vars

\* the server process from its start, its store in the slice's initialState:
\* sessions of two accounts, and pages requested with and without them
InitRender ==
    /\ ServerInit
    /\ cnow = 0
    /\ storage = EmptyStorage
    /\ marker = FALSE
    /\ auth = initialState
    /\ event = None
    /\ provider = freshProvider
    /\ requests = NoRequests
    /\ timers = NoTimers
    /\ cghost = NoHistory

NextRender ==
    \/ \E user \in UserIds : GoogleLogin(user)
    \/ \E cookie \in AccessCookies, protected \in BOOLEAN : HandleRequest(cookie, protected)
    \/ Tick(ACCESS_TOKEN_EXPIRY)

SpecRender == InitRender /\ [][NextRender]_vars

\* the guards in front of requests of an admin, of a verified and of an
\* unverified account, and of nobody
NextGuards ==
    \/ \E user \in UserIds : GoogleLogin(user)
    \/ \E user \in UserIds : VerifyEmail(user)
    \/ \E guard \in Guards, cookie \in AccessCookies : Guarded(guard, cookie)
    \/ Tick(ACCESS_TOKEN_EXPIRY)

SpecGuards == Init /\ [][NextGuards]_vars

\* expiry times a cache can hold, from over an hour ago to over 20 minutes
\* ahead of the first page load
CachedTimes == {0 - ONE_HOUR - 1, 0 - 1, 4, FIFTEEN_MINUTES, TWENTY_MINUTES, TWENTY_MINUTES + 3}

\* what sessionStorage can hold when a page loads: no reduxState, or the auth
\* slice a previous page saved or somebody edited, and a lastSuccessfulAuth
CachedStorages ==
    [reduxState :
        {None} \cup [user : {None, CachedUser},
                     expiresAt : {None} \cup {toISOString(t) : t \in CachedTimes},
                     isLoading : {FALSE}, source : {"null", "client"},
                     logoutInProgress : {FALSE}, refreshInProgress : {FALSE},
                     lastSuccessfulRefresh :
                         {None, toISOString(0 - FIVE_MINUTES - 2), toISOString(0 - 2)}],
     lastSuccessfulAuth :
        {None} \cup [expiryTime : {toISOString(t) : t \in CachedTimes}]]

InitLoad ==
    /\ ServerInit
    /\ cnow = 0
    /\ storage \in CachedStorages
    /\ marker \in BOOLEAN
    /\ auth = None
    /\ event = None
    /\ provider = freshProvider
    /\ requests = NoRequests
    /\ timers = NoTimers
    /\ cghost = NoHistory

\* page loads over every cache, with and without the marker cookie
NextLoad ==
    \/ \E preloaded \in {None, initialState} : Boot(preloaded)
    \/ ClientTick(1, MaxClientTime)

SpecLoad == InitLoad /\ [][NextLoad]_vars

\* one tab from its first page load on: logins, the provider's scheduled
\* checks and the refresh requests they start, with the clock running
InitSession ==
    /\ ServerInit
    /\ cnow = 0
    /\ storage = EmptyStorage
    /\ marker \in BOOLEAN
    /\ auth = initialState
    /\ event = None
    /\ provider = freshProvider
    /\ requests = NoRequests
    /\ timers = MountedTimers
    /\ cghost = NoHistory

SessionSteps == {1, FIFTEEN_MINUTES - THREE_MINUTES}

NextSession ==
    \/ LoginSuccess
    \/ MeFulfilled
    \/ ScheduledCheck
    \/ \E i \in 1..MaxFlights : RefreshFulfilled(i)
    \/ \E i \in 1..MaxFlights : RefreshRejected(i)
    \/ \E d \in SessionSteps : ClientTick(d, MaxSessionTime)

SpecSession == InitSession /\ [][NextSession]_vars

\* the three callers of the refresh endpoint in one tab: the scheduled
\* check, manualRefreshToken and the login page's timer
NextFlight ==
    \/ LoginSuccess
    \/ ScheduledCheck
    \/ ManualRefresh
    \/ LoginTimerRefresh
    \/ \E i \in 1..MaxFlights : RefreshFulfilled(i)
    \/ \E i \in 1..MaxFlights : RefreshRejected(i)
    \/ \E d \in SessionSteps : ClientTick(d, MaxSessionTime)

SpecFlight == InitSession /\ [][NextFlight]_vars

\* a logout racing the scheduled refresh of the tab, up to the page load its
\* redirect ends in
NextRace ==
    \/ LoginSuccess
    \/ ScheduledCheck
    \/ \E i \in 1..MaxFlights : RefreshFulfilled(i)
    \/ HandleLogout
    \/ LogoutFulfilled
    \/ LogoutRejected
    \/ Boot(None)
    \/ \E d \in SessionSteps : ClientTick(d, MaxSessionTime)

SpecRace == InitSession /\ [][NextRace]_vars

\* logout with no refresh about: the cache written a second after the last
\* change of the store, the logout request answered or not, and the page
\* load of the redirect
NextLogout ==
    \/ LoginSuccess
    \/ SaveState
    \/ HandleLogout
    \/ LogoutFulfilled
    \/ LogoutRejected
    \/ Boot(None)
    \/ ResetOnMount
    \/ MeFulfilled
    \/ ClientTick(1, MaxClientTime)

SpecLogout == InitSession /\ [][NextLogout]_vars

\* refresh requests of the three callers, every one of them rejected
NextReject ==
    \/ LoginSuccess
    \/ ScheduledCheck
    \/ ManualRefresh
    \/ LoginTimerRefresh
    \/ \E i \in 1..MaxFlights : RefreshRejected(i)
    \/ HandleLogout
    \/ \E d \in SessionSteps : ClientTick(d, MaxSessionTime)

SpecReject == InitSession /\ [][NextReject]_vars

\* a session the /me query opened, its scheduled refreshes, and the
\* auth_status cookie going away under it
NextCookie ==
    \/ MeFulfilled
    \/ ScheduledCheck
    \/ \E i \in 1..MaxFlights : RefreshFulfilled(i)
    \/ \E i \in 1..MaxFlights : RefreshRejected(i)
    \/ MarkerGone
    \/ CheckAuthCookie
    \/ \E d \in SessionSteps : ClientTick(d, MaxSessionTime)

\* a request in flight is answered, one way or the other
RefreshAnswered ==
    \E i \in 1..MaxFlights : RefreshFulfilled(i) \/ RefreshRejected(i)

\* the same, with what the browser guarantees: an interval that is set keeps
\* firing, and a request that left is answered or fails
SpecCookie ==
    /\ InitSession
    /\ [][NextCookie]_vars
    /\ WF_vars(CheckAuthCookie)
    /\ WF_vars(RefreshAnswered)

\* the auth slice under any sequence of its actions
NextSlice ==
    \/ \E type \in SliceActions : Dispatch(type)
    \/ ClientTick(1, MaxClientTime)

SpecSlice == InitSession /\ [][NextSlice]_vars

\* ----------------------------------------------------------------- Claims

\* the 401 every rejected refresh token is answered with
InvalidRefreshToken == postRefreshFailure("Invalid refresh token")

IsSent(op) == sent # None /\ sent.op = op

\* the login row a row descends from by rotations
RECURSIVE Root(_)
Root(i) == IF ghost.parent[i] = 0 THEN i ELSE Root(ghost.parent[i])

\* C1: a refresh request that starts after a rotation with the same token
\* has succeeded is answered with the invalid-token 401, whatever happened in
\* between and although the token has not expired.
C1_RotatedTokenRejected ==
    (IsSent("refresh") /\ sent.pre.replay) => sent.response = InvalidRefreshToken

\* a replayed token, signed, unexpired, its row revoked by the rotation, was
\* rejected
C1_Witness ==
    /\ IsSent("refresh")
    /\ sent.pre.replay
    /\ sent.pre.status = "revoked"
    /\ sent.response.status = 401

\* C2: of the refresh requests made with one token at most one succeeds: no
\* row is rotated into two new rows.
C2_SingleWinner ==
    \A i \in RowIds : \A j \in RowIds :
        (i # j /\ ghost.parent[i] # 0) => ghost.parent[i] # ghost.parent[j]

\* C3: at most one row of a login session is not revoked.
C3_OneActivePerSession ==
    \A r \in RowIds :
        Cardinality({i \in RowIds : Root(i) = r /\ ~refreshTokens[i].isRevoked}) <= 1

\* C4: a refresh request succeeds only with a signed token whose row is
\* active, and a signed token whose row is revoked, expired or absent gets the
\* 401, no new tokens and no new row.
C4_BothChecks ==
    [][(sent' # None /\ sent'.op = "refresh") =>
          /\ sent'.response.status = 200 => sent'.pre.status = "active"
          /\ sent'.pre.status \in {"revoked", "expired", "absent"} =>
                /\ sent'.response = InvalidRefreshToken
                /\ refreshTokens' = refreshTokens
                /\ accessTokens' = accessTokens]_vars

\* a signed, unexpired token without a row was rejected
C4_Witness ==
    /\ IsSent("refresh")
    /\ sent.pre.status = "absent"
    /\ sent.response.status = 401

\* C5: no step deletes a row, changes its token or clears its revoked flag.
C5_RevokedIsMonotonic ==
    [][\A i \in RowIds :
          /\ i <= Len(refreshTokens')
          /\ refreshTokens'[i].token = refreshTokens[i].token
          /\ refreshTokens[i].isRevoked => refreshTokens'[i].isRevoked]_vars

\* a row revoked by a rotation was later reached by a logout-all and is
\* still there, revoked, after newer rows were inserted
C5_Witness ==
    \E i \in RowIds :
        /\ refreshTokens[i].isRevoked
        /\ i \in ghost.rotated
        /\ i \in ghost.covered
        /\ Len(refreshTokens) > i + 1

\* C6: logout-all revokes every row of the authenticated user and changes no
\* row of another user, and a refresh request that starts afterwards with a
\* token of a covered row is answered with the invalid-token 401.
C6_LogoutAll ==
    [][/\ (sent' # None /\ sent'.op = "logoutAll" /\ sent'.response.status = 200) =>
            \A i \in RowIds :
                IF refreshTokens[i].userId = sent'.input.user
                THEN refreshTokens'[i].isRevoked
                ELSE refreshTokens'[i] = refreshTokens[i]
       /\ (sent' # None /\ sent'.op = "refresh" /\ sent'.pre.covered) =>
            sent'.response = InvalidRefreshToken]_vars

\* two sessions of one user were covered by a logout-all, the row of another
\* user is still active, and a covered token was then refused
C6_Witness ==
    /\ IsSent("refresh")
    /\ sent.pre.covered
    /\ sent.response.status = 401
    /\ \E i \in ghost.covered : \E j \in ghost.covered :
          /\ i # j
          /\ ghost.parent[i] = 0
          /\ ghost.parent[j] = 0
          /\ refreshTokens[i].userId = refreshTokens[j].userId
    /\ \E k \in RowIds : ~refreshTokens[k].isRevoked

\* C7: an access token issued before a logout-all of its user is accepted as
\* long as it has not expired, while a refresh token of that user issued
\* before it is refused.
C7_AccessSurvivesLogoutAll ==
    /\ (IsSent("me") /\ sent.pre.covered /\ sent.pre.status = "live") =>
          sent.response.status = 200
    /\ (IsSent("refresh") /\ sent.pre.covered) => sent.response = InvalidRefreshToken

\* /me was answered 200 for an access token whose user had logged out
\* everywhere
C7_Witness ==
    /\ IsSent("me")
    /\ sent.pre.covered
    /\ sent.pre.status = "live"
    /\ sent.response.status = 200

HasRow(rows, token) == \E i \in 1..Len(rows) : rows[i].token = token

HasRevokedRow(rows, token) ==
    \E i \in 1..Len(rows) : rows[i].token = token /\ rows[i].isRevoked

\* C8: revoking a token twice leaves the table as revoking it once does, with
\* the row revoked; revoking a token whose row is revoked or absent changes
\* nothing; the logout route answers 200 either way.
C8_IdempotentRevoke ==
    /\ \A token \in RefreshCookies \ {None} :
          LET once == revokeRefreshToken(refreshTokens, token) IN
          /\ revokeRefreshToken(once, token) = once
          /\ HasRow(refreshTokens, token) => HasRevokedRow(once, token)
          /\ (HasRevokedRow(refreshTokens, token) \/ ~HasRow(refreshTokens, token)) =>
                once = refreshTokens
    /\ IsSent("logout") => sent.response.status = 200 /\ sent.response.body.success

\* the logout route was given a token whose row was already revoked
C8_Witness ==
    /\ IsSent("logout")
    /\ sent.pre.status = "revoked"
    /\ sent.response.status = 200

\* C9: the answer to a login with an unknown address is the answer a login
\* with the address of any account and a wrong password gets, from
\* AuthService.login and from the route.
C9_AntiEnumeration ==
    (IsSent("login") /\ sent.input.email = UnknownEmail) =>
        \A u \in UserIds :
            /\ login(sent.input.email, sent.input.password)
                   = login(users[u].email, WrongPassword)
            /\ sent.response.body = postLoginFailure(users[u].email, WrongPassword).body
            /\ sent.response.status = postLoginFailure(users[u].email, WrongPassword).status

RejectedStatus == {"badsig", "expired", "revoked", "absent"}

\* C10: a refresh request rejected for a bad signature, a passed expiry or a
\* missing active row gets the answer every other such token would get.
C10_OneRefreshError ==
    (IsSent("refresh") /\ sent.pre.status \in RejectedStatus) =>
        \A cookie \in RefreshCookies :
            RefreshTokenStatus(cookie) \in RejectedStatus =>
                sent.response = postRefreshFailure(refreshTokenLookup(cookie).error)

\* an expired token was refused while a token with a bad signature and a
\* revoked one could be presented as well
C10_Witness ==
    /\ IsSent("refresh")
    /\ sent.pre.status = "expired"
    /\ sent.response.status = 401
    /\ \E cookie \in RefreshCookies : RefreshTokenStatus(cookie) = "badsig"
    /\ \E cookie \in RefreshCookies : RefreshTokenStatus(cookie) = "revoked"

StoreFailed(s) == s # None /\ s.pre = StoreFailure

\* C12: a login or refresh request one of whose store accesses throws ends
\* there, no row written and no token delivered by the failing step, and is
\* answered with a 5xx status, not the 401 of bad credentials or tokens.
C12_StoreFailureIs500 ==
    [][StoreFailed(sent') =>
          /\ sent'.response.status \in 500..599
          /\ refreshTokens' = refreshTokens
          /\ accessTokens' = accessTokens
          /\ InFlight' \subseteq InFlight]_vars

\* the messages the session service and the routes word themselves
UserSafeMessages ==
    {"Invalid credentials", "Invalid refresh token", "User not found",
     "Refresh token not available", "Invalid email or password", "Login failed",
     "Token refresh failed",
     "Email not verified. Please check your email for the verification link."}

\* C13: the message of every failure answer of the login and refresh routes
\* is one of the fixed messages; the text of a store exception is in none.
C13_UserSafeMessages ==
    ((IsSent("login") \/ IsSent("refresh")) /\ ~sent.response.body.success) =>
        /\ sent.response.body.message \in UserSafeMessages
        /\ sent.response.body.message # StoreErrorText

\* C14: every guard answers a request without an authenticated user 401, a
\* request of an unverified account (requireVerifiedEmail) or of role "user"
\* (requireAdmin) 403, and in both cases the handler behind it does not run.
C14_GuardCodes ==
    (sent # None /\ sent.op \in Guards) =>
        /\ sent.input.user = 0 =>
              sent.response.status = 401 /\ ~sent.response.next
        /\ (/\ sent.input.user # 0
            /\ \/ sent.op = "requireVerifiedEmail" /\ ~users[sent.input.user].isVerified
               \/ sent.op = "requireAdmin" /\ users[sent.input.user].role = "user") =>
              sent.response.status = 403 /\ ~sent.response.next

Loaded == event # None /\ event.op = "loadState"

\* C15: a store initialised from the session cache while the marker cookie
\* is absent has user = null and expiresAt = null, whatever the cache holds.
C15_NoMarkerNoSession ==
    (Loaded /\ event.preloaded = None /\ ~marker) =>
        auth.user = None /\ auth.expiresAt = None

\* C16: when a cached session is restored with the marker cookie present and
\* its expiresAt is over 20 minutes ahead or already past, the loaded
\* expiresAt is in the future and at most 20 minutes from now.
C16_ConservativeEstimate ==
    (/\ Loaded
     /\ event.preloaded = None
     /\ marker
     /\ storage.reduxState # None
     /\ storage.reduxState.user # None
     /\ storage.reduxState.expiresAt # None
     /\ \/ getTime(storage.reduxState.expiresAt) > cnow + TWENTY_MINUTES
        \/ getTime(storage.reduxState.expiresAt) < cnow) =>
        /\ auth.expiresAt # None
        /\ getTime(auth.expiresAt) > cnow
        /\ getTime(auth.expiresAt) <= cnow + TWENTY_MINUTES

\* a refresh request has just left, started by the given caller
RefreshStarted(origin) ==
    event # None /\ event.op = "refreshStart" /\ event.origin = origin

C18_SingleFlight == Len(requests.refresh) <= 1

\* a refresh request has just been answered 200 while handleLogout of this
\* page was past its start
FulfilledDuringLogout ==
    event # None /\ event.op = "refreshFulfilled" /\ event.duringLogout

\* C19: a refresh answered 200 after handleLogout started leaves user and
\* expiresAt null and every logout flag set, and no scheduled check starts a
\* refresh while the logout is under way
C19_LogoutNotPreempted ==
    /\ FulfilledDuringLogout =>
           /\ auth.user = None
           /\ auth.expiresAt = None
           /\ auth.logoutInProgress
           /\ provider.isLoggingOut
           /\ provider.isRedirecting
           /\ provider.redirectInProgressRef
    /\ RefreshStarted("scheduled") => requests.logout = "none"

\* C20: from handleLogout on, and until the next login, the auth state holds
\* no user, and no expiresAt while the logout request and its redirect are
\* under way, whether the request is answered or fails
C20_LogoutOrdering ==
    cghost.logoutInvoked =>
        /\ auth.user = None
        /\ requests.logout # "none" => auth.expiresAt = None

\* a refresh request has just been rejected
RefreshWasRejected == event # None /\ event.op = "refreshRejected"

\* C21: after a rejected refresh the auth state holds no user and no
\* expiresAt, whoever started the refresh
C21_RejectedRefreshClears ==
    RefreshWasRejected => auth.user = None /\ auth.expiresAt = None

\* a refresh the login page's timer sent directly was rejected while the
\* state held a user
C21_Witness ==
    /\ RefreshWasRejected
    /\ event.origin = "loginTimer"
    /\ event.hadUser
    /\ auth.user = None

\* a refresh request has just been answered 200 while the state held a user
\* and no logout or redirect flag was set
FulfilledWhileAuthenticated ==
    /\ event # None
    /\ event.op = "refreshFulfilled"
    /\ event.user # None
    /\ ~event.loggingOut

\* C22: after a refresh answered 200 with expiry E for an authenticated
\* client that is not logging out, the cached expiresAt is E and the cached
\* user is the one it was
C22_RefreshTakesServerExpiry ==
    FulfilledWhileAuthenticated =>
        /\ auth.expiresAt = event.expiresAt
        /\ auth.user = event.user

\* C23: the auth slice holds a user exactly when it holds an expiresAt, and
\* no source without a user
C23_NoPartialAuth ==
    auth # None =>
        /\ auth.user = None <=> auth.expiresAt = None
        /\ auth.user = None => auth.source = "null"

\* C24: a session whose auth_status cookie is gone is eventually cleared,
\* user and expiresAt null, by the page itself, unless a refresh answered
\* meanwhile has set the cookie again
C24_CookieGoneClears ==
    (auth.user # None /\ ~hasAuthCookie)
        ~> ((auth.user = None /\ auth.expiresAt = None) \/ hasAuthCookie)

\* C25: an access token presented by a request whose user agent, address or
\* family is not the one in the token's fingerprint is rejected
C25_FingerprintEnforced ==
    (/\ sent # None
     /\ sent.op = "me"
     /\ "headers" \in DOMAIN sent.input
     /\ sent.input.token.fingerprint # metadataOf(sent.input.headers))
        => sent.response.status = 401

\* C26: a login for an unverified account is answered 403 with
\* requiresVerification and the address, and no refresh-token row was
\* created, by a login, by the Google callback or by a rotation, for a user
\* who was unverified at that moment
C26_UnverifiedGetsNoTokens ==
    /\ (/\ sent # None
        /\ sent.op = "login"
        /\ "password" \in DOMAIN sent.input
        /\ findUserByEmail(sent.input.email) # 0
        /\ ~users[findUserByEmail(sent.input.email)].isVerified)
           => sent.response = requiresVerification(sent.input.email)
    /\ \A i \in RowIds : refreshTokens[i].id \notin ghost.unverified

\* C27: when a call of refreshToken that had found its row ends without the
\* new pair, whatever made it fail, the row of the presented token is not
\* revoked afterwards
C27_RefreshAllOrNothing ==
    [][\A p \in Callers :
          (/\ proc[p].pc # "idle"
           /\ proc'[p].pc = "idle"
           /\ sent'.response.status # 200)
              => ~refreshTokens'[proc[p].stored].isRevoked]_vars

\* C28: a response that deletes the access_token and refresh_token cookies
\* deletes the auth_status cookie with them
C28_MarkerFollowsTokens ==
    (/\ sent # None
     /\ sent.response.cookies.access_token = "deleted"
     /\ sent.response.cookies.refresh_token = "deleted")
        => sent.response.cookies.auth_status = "deleted"

\* C29: a logout of a session whose access token has expired, the refresh
\* token's row being active, leaves that row revoked once it is answered.
\* The browser sends the expired access_token cookie, or none if it has
\* dropped it
C29_LogoutRevokes ==
    [][\A i \in 1..Len(accessTokens) :
          \A cookie \in {None, accessTokens[i]} :
             (/\ now >= accessTokens[i].exp
              /\ findActiveRefreshToken(refreshTokens[i].token) = i
              /\ LogoutAll(cookie))
                 => refreshTokens'[i].isRevoked]_vars

\* C30: the preloaded state injected into a page names a user only if the
\* request for that page was authenticated, and as that user
C30_RenderIsolated ==
    (/\ sent # None
     /\ sent.op = "render"
     /\ sent.response.body.preloadedState.user # None)
        => /\ sent.input.user # 0
           /\ sent.response.body.preloadedState.user.id = sent.input.user

====
